---- MODULE Spec2Model ----
(***************************************************************************)
(* Model of outrigger/index/adjacencies.py: ExonJunctionAdjacencies.       *)
(*                                                                         *)
(* The object holds the junction table (metadata, indexed and sorted by    *)
(* junction id), the annotation store (db) and max_de_novo_exon_length.    *)
(* Its methods are detect_exons_from_junctions (one action per iteration   *)
(* of its loop over junction pairs), add_exon_to_db, is_there_an_exon_here,*)
(* _adjacent_junctions_single_exon and neighboring_exons.                  *)
(*                                                                         *)
(* Python values: None is the string "None" (what str.format prints),      *)
(* False is 0 (bool is a subclass of int, False == 0, and line 89 only     *)
(* tests truthiness).                                                      *)
(***************************************************************************)
EXTENDS Integers, Sequences, FiniteSets, TLC

VARIABLES metadata, max_de_novo_exon_length, db, pc, pending, call, nCalls,
          nDetect

vars == <<metadata, max_de_novo_exon_length, db, pc, pending, call, nCalls,
          nDetect>>

(***************************************************************************)
(* Module constants, lines 18-23.                                          *)
(***************************************************************************)
UPSTREAM == "upstream"
DOWNSTREAM == "downstream"
DIRECTIONS == {UPSTREAM, DOWNSTREAM}
NOVEL_EXON == "novel_exon"
OUTRIGGER_DE_NOVO == "outrigger_de_novo"
MAX_DE_NOVO_EXON_LENGTH == 100
exon_types == {"exon", NOVEL_EXON}

\* outrigger.region.STRANDS, imported on line 14
STRANDS == {"+", "-"}

None == "None"
False == 0

(***************************************************************************)
(* Bounds of the model.                                                    *)
(***************************************************************************)
MaxTableSize == 3      \* junctions in the table
MaxCalls == 2          \* direct add_exon_to_db calls by the client
MaxDetect == 1         \* runs of detect_exons_from_junctions

(***************************************************************************)
(* Junctions.  A row of the junction table has the junction id (the index) *)
(* and the columns chrom, strand, exon_start, exon_stop.  The id is the    *)
(* text "junction:<chrom>:<start>-<stop>:<strand>", kept as its fields.    *)
(***************************************************************************)
Row(chrom, start, stop, strand) ==
    [junction_id |-> <<chrom, start, stop, strand>>,
     chrom |-> chrom, strand |-> strand,
     exon_start |-> stop + 1, exon_stop |-> start - 1]

JunctionPool ==
    { Row("chr1", 100, 200, "+"),
      Row("chr1", 150, 200, "+"),
      Row("chr1", 150, 200, "-"),
      Row("chr1", 201, 240, "-"),
      Row("chr1", 250, 260, "+"),
      Row("chr1", 30, 50, "+"),
      Row("chr2", 250, 260, "+") }

\* Region(name): the interval parsed from a junction id
Region(name) ==
    [chrom |-> name[1], start |-> name[2], stop |-> name[3],
     strand |-> name[4]]

NoRegion == [chrom |-> "", start |-> 0, stop |-> 0, strand |-> ""]

\* Region.overlaps: the intervals intersect on the same chromosome
overlaps(r1, r2) ==
    /\ r1.chrom = r2.chrom
    /\ r1.start <= r2.stop
    /\ r2.start <= r1.stop

(***************************************************************************)
(* The text of a junction id as character codes, and the order of          *)
(* sort_index() on it (lexicographic on the text).                         *)
(***************************************************************************)
RECURSIVE Digits(_)
Digits(n) == IF n < 10 THEN <<48 + n>> ELSE Digits(n \div 10) \o <<48 + (n % 10)>>

ChromText(c) ==
    CASE c = "chr1" -> <<99, 104, 114, 49>>
      [] c = "chr2" -> <<99, 104, 114, 50>>
      [] OTHER -> <<>>

StrandChar(s) == IF s = "+" THEN 43 ELSE IF s = "-" THEN 45 ELSE 46

IdText(name) ==
    ChromText(name[1]) \o <<58>> \o Digits(name[2]) \o <<45>>
        \o Digits(name[3]) \o <<58, StrandChar(name[4])>>

RECURSIVE LexLess(_, _)
LexLess(a, b) ==
    IF a = <<>> THEN b # <<>>
    ELSE IF b = <<>> THEN FALSE
    ELSE IF Head(a) # Head(b) THEN Head(a) < Head(b)
    ELSE LexLess(Tail(a), Tail(b))

RECURSIVE sort_index(_)
sort_index(rows) ==
    IF rows = {} THEN <<>>
    ELSE LET first == CHOOSE r \in rows :
                        \A q \in rows \ {r} :
                           LexLess(IdText(r.junction_id), IdText(q.junction_id))
         IN <<first>> \o sort_index(rows \ {first})

(***************************************************************************)
(* is_there_an_exon_here, lines 102-130.                                   *)
(***************************************************************************)
Abs(x) == IF x < 0 THEN -x ELSE x

\* variant: option 2 is tried before option 1
is_there_an_exon_here_option2_first(junction1, junction2, maxlen) ==
    IF overlaps(junction1, junction2) THEN <<False, False>>
    ELSE LET option1 == Abs(junction1.stop - junction2.start) < maxlen
             option2 == Abs(junction2.stop - junction1.start) < maxlen
         IN IF option2 THEN <<junction2.stop + 1, junction1.start - 1>>
            ELSE IF option1 THEN <<junction1.stop + 1, junction2.start - 1>>
            ELSE <<False, False>>

is_there_an_exon_here(junction1, junction2, maxlen) ==
    IF overlaps(junction1, junction2) THEN <<False, False>>
    ELSE LET option1 == Abs(junction1.stop - junction2.start) < maxlen
             option2 == Abs(junction2.stop - junction1.start) < maxlen
         IN IF option1 THEN <<junction1.stop + 1, junction2.start - 1>>
            ELSE IF option2 THEN <<junction2.stop + 1, junction1.start - 1>>
            ELSE <<False, False>>

(***************************************************************************)
(* The pairs detect_exons_from_junctions iterates, lines 70-79: groupby    *)
(* chrom (groups in key order), then itertools.combinations of the rows    *)
(* of a group in index order.                                              *)
(***************************************************************************)
SeqRange(s) == { s[i] : i \in 1..Len(s) }

RECURSIVE combinations(_)
combinations(s) ==
    IF Len(s) < 2 THEN <<>>
    ELSE [i \in 1..(Len(s) - 1) |-> <<s[1], s[i + 1]>>] \o combinations(Tail(s))

SelectRows(s, chrom) == SelectSeq(s, LAMBDA r : Region(r.junction_id).chrom = chrom)

ChromOrder == <<"chr1", "chr2">>

GroupPairs(md, chrom) ==
    LET prs == combinations(SelectRows(md, chrom))
    IN [i \in 1..Len(prs) |->
          [chrom |-> chrom,
           junction1 |-> Region(prs[i][1].junction_id),
           junction2 |-> Region(prs[i][2].junction_id)]]

\* variant: combinations over the whole table, without the groupby
junction_pairs_ungrouped(md) ==
    LET prs == combinations(md)
    IN [i \in 1..Len(prs) |->
          [chrom |-> Region(prs[i][1].junction_id).chrom,
           junction1 |-> Region(prs[i][1].junction_id),
           junction2 |-> Region(prs[i][2].junction_id)]]

junction_pairs(md) ==
    GroupPairs(md, ChromOrder[1]) \o GroupPairs(md, ChromOrder[2])

(***************************************************************************)
(* The annotation store: a set of features with pairwise different ids.    *)
(* A feature id is the text "<type>:<chrom>:<start>-<stop>:<strand...>",   *)
(* kept as its fields; the last field is the sequence of strand texts      *)
(* written at the end of the id.                                           *)
(***************************************************************************)
Feature(id, featuretype, seqid, start, end, strand, source, gene_id) ==
    [id |-> id, featuretype |-> featuretype, seqid |-> seqid,
     start |-> start, end |-> end, strand |-> strand, source |-> source,
     gene_id |-> gene_id]

NoFeature == Feature(<<"", "", 0, 0, <<>>>>, "", "", 0, 0, "", "", "")

Gene(name, seqid, start, end, strand) ==
    Feature(<<"gene", name, 0, 0, <<>>>>, "gene", seqid, start, end, strand,
            "annotated", name)

AnnotatedExon(seqid, start, end, strand, gene_id) ==
    Feature(<<"exon", seqid, start, end, <<strand>>>>, "exon", seqid, start,
            end, strand, "annotated", gene_id)

GenePlus == Gene("G1", "chr1", 90, 300, "+")
GeneMinus == Gene("G2", "chr1", 20, 260, "-")

StorePool ==
    { {},
      {GenePlus, AnnotatedExon("chr1", 261, 290, "+", "G1")},
      {GeneMinus, AnnotatedExon("chr1", 201, 249, "-", "G2")},
      {GenePlus, GeneMinus, AnnotatedExon("chr1", 261, 290, "+", "G1")} }

\* db[id]: the feature with this id; FeatureNotFoundError when there is none
HasFeature(store, id) == \E f \in store : f.id = id

\* db.region(seqid, start, end, strand, featuretype): the features of the
\* type that overlap the interval, on the strand when one is given
region(store, seqid, start, end, strand, featuretype) ==
    { f \in store : /\ f.featuretype = featuretype
                    /\ f.seqid = seqid
                    /\ f.start <= end
                    /\ f.end >= start
                    /\ (strand = None \/ f.strand = strand) }

\* db.update([feature]): insertion; an id already in the store is a
\* uniqueness violation (sqlite3.IntegrityError) and changes nothing
update(store, feature) ==
    IF HasFeature(store, feature.id)
    THEN [db |-> store, raised |-> "IntegrityError"]
    ELSE [db |-> store \cup {feature}, raised |-> ""]

\* db.features_of_type(types)
features_of_type(store, types) == { f \in store : f.featuretype \in types }

(***************************************************************************)
(* add_exon_to_db, lines 133-181.                                          *)
(***************************************************************************)
\* 'exon:{chrom}:{start}-{stop}:{strand}'.format(...), lines 140-141
exon_id_format(chrom, start, stop, strand) ==
    <<"exon", chrom, start, stop, <<strand>>>>

\* exon_id + g.strand, lines 155 and 171: text appended to the id
IdPlus(id, text) == <<id[1], id[2], id[3], id[4], Append(id[5], text)>>

\* variant: the region query without featuretype='gene'
overlapping_genes_any_type(store, chrom, start, stop, strand) ==
    UNION { region(store, chrom, start, stop, strand, t) :
              t \in {"gene", "exon", NOVEL_EXON} }

\* line 136-138: the genes overlapping the interval
overlapping_genes(store, chrom, start, stop, strand) ==
    region(store, chrom, start, stop, strand, "gene")

\* lines 153-157: one candidate exon per overlapping gene
de_novo_exon(g, exon_id, chrom, start, stop) ==
    Feature(IdPlus(exon_id, g.strand), NOVEL_EXON, chrom, start, stop,
            g.strand, OUTRIGGER_DE_NOVO, g.gene_id)

\* lines 160-181: the loop over the candidates; genes is the list of
\* overlapping genes in the order the store returned them
RECURSIVE add_all(_, _, _, _, _, _)
add_all(store, genes, exon_id, chrom, start, stop) ==
    IF genes = <<>> THEN store
    ELSE LET exon == de_novo_exon(Head(genes), exon_id, chrom, start, stop)
             next ==
                IF HasFeature(store, IdPlus(exon_id, exon.strand))
                THEN store
                ELSE update(store, exon).db    \* IntegrityError: continue
         IN add_all(next, Tail(genes), exon_id, chrom, start, stop)

add_exon_to_db(store, chrom, start, stop, strand0, genes) ==
    LET strand == IF strand0 \notin STRANDS THEN None ELSE strand0
        exon_id == exon_id_format(chrom, start, stop, strand)
    IN IF Len(genes) = 0
       THEN update(store, Feature(exon_id, NOVEL_EXON, chrom, start, stop,
                                  strand, OUTRIGGER_DE_NOVO, ""))
       ELSE [db |-> add_all(store, genes, exon_id, chrom, start, stop),
             raised |-> ""]

\* the orders in which the store may list a set of features
Orderings(S) ==
    { s \in [1..Cardinality(S) -> S] : \A f \in S : \E i \in DOMAIN s : s[i] = f }

\* the list add_exon_to_db gets on line 136
GeneLists(store, chrom, start, stop, strand0) ==
    Orderings(overlapping_genes(store, chrom, start, stop,
                 IF strand0 \notin STRANDS THEN None ELSE strand0))

(***************************************************************************)
(* The Adjacency Resolver, lines 183-321.  A boolean series over the       *)
(* junction table is the set of rows where it is True; a table of triples  *)
(* is the set of its rows.                                                 *)
(***************************************************************************)
\* lines 184-209
_single_junction_exon_triple(direction_ind, direction, exon_id) ==
    { <<exon_id, direction, r.junction_id>> : r \in direction_ind }

\* variant: the '-' branch does not swap
_to_stranded_transcript_adjacency_no_swap(adjacent_in_genome, strand) ==
    IF strand \in {"+", "-"}
    THEN [isNone |-> FALSE,
          upstream |-> adjacent_in_genome.upstream,
          downstream |-> adjacent_in_genome.downstream]
    ELSE [isNone |-> TRUE, upstream |-> {}, downstream |-> {}]

\* lines 212-229; the method falls off its end (returns None) for any other
\* strand
_to_stranded_transcript_adjacency(adjacent_in_genome, strand) ==
    IF strand = "+"
    THEN [isNone |-> FALSE,
          upstream |-> adjacent_in_genome.upstream,
          downstream |-> adjacent_in_genome.downstream]
    ELSE IF strand = "-"
    THEN [isNone |-> FALSE,
          upstream |-> adjacent_in_genome.downstream,
          downstream |-> adjacent_in_genome.upstream]
    ELSE [isNone |-> TRUE, upstream |-> {}, downstream |-> {}]

\* lines 231-243
_junctions_genome_adjacent_to_exon(md, exon) ==
    LET rows == SeqRange(md)
        chrom_ind == { r \in rows : r.chrom = exon.seqid }
        strand_ind == { r \in rows : r.strand = exon.strand }
    IN [upstream |-> { r \in chrom_ind \cap strand_ind :
                         r.exon_stop = exon.end },
        downstream |-> { r \in chrom_ind \cap strand_ind :
                         r.exon_start = exon.start }]

\* lines 245-268; .items() of None raises AttributeError
_adjacent_junctions_single_exon(md, exon) ==
    LET adjacent_in_genome == _junctions_genome_adjacent_to_exon(md, exon)
        adjacent_in_transcriptome ==
            _to_stranded_transcript_adjacency(adjacent_in_genome, exon.strand)
    IN IF adjacent_in_transcriptome.isNone
       THEN [triples |-> {}, raised |-> "AttributeError"]
       ELSE [triples |->
               _single_junction_exon_triple(adjacent_in_transcriptome.upstream,
                                            UPSTREAM, exon.id)
               \cup
               _single_junction_exon_triple(adjacent_in_transcriptome.downstream,
                                            DOWNSTREAM, exon.id),
             raised |-> ""]

\* lines 270-321; pd.concat of an empty list raises ValueError
neighboring_exons(md, store) ==
    LET exons == features_of_type(store, exon_types)
    IN IF \E e \in exons : _adjacent_junctions_single_exon(md, e).raised # ""
       THEN [triples |-> {}, raised |-> "AttributeError"]
       ELSE IF exons = {}
       THEN [triples |-> {}, raised |-> "ValueError"]
       ELSE [triples |-> UNION { _adjacent_junctions_single_exon(md, e).triples :
                                   e \in exons },
             raised |-> ""]

(***************************************************************************)
(* The state machine.  call is the record of the most recent method call:  *)
(* its arguments, what it returned or raised, and the store before it.     *)
(***************************************************************************)
NoCall ==
    [op |-> "", caller |-> "", junction1 |-> NoRegion, junction2 |-> NoRegion,
     chrom |-> "", start |-> 0, stop |-> 0, strand |-> "", exon |-> NoFeature,
     result |-> <<False, False>>, triples |-> {}, raised |-> "",
     dbBefore |-> {}, repeat |-> FALSE]

MaxChoices == {10, MAX_DE_NOVO_EXON_LENGTH, 200}

Tables ==
    { T \in SUBSET JunctionPool : Cardinality(T) \in 2..MaxTableSize }

\* lines 30-66: __init__
Init ==
    /\ metadata \in { sort_index(T) : T \in Tables }
    /\ max_de_novo_exon_length \in MaxChoices
    /\ db \in StorePool
    /\ pc = "idle"
    /\ pending = <<>>
    /\ call = NoCall
    /\ nCalls = 0
    /\ nDetect = 0

SameInput(c, chrom, start, stop, strand) ==
    /\ c.op = "add_exon_to_db"
    /\ c.chrom = chrom /\ c.start = start /\ c.stop = stop
    /\ c.strand = strand

MergeCall(caller, junction1, junction2, chrom, start, stop, strand, r) ==
    [NoCall EXCEPT !.op = "add_exon_to_db", !.caller = caller,
                   !.junction1 = junction1, !.junction2 = junction2,
                   !.chrom = chrom, !.start = start, !.stop = stop,
                   !.strand = strand, !.raised = r.raised, !.dbBefore = db,
                   !.repeat = SameInput(call, chrom, start, stop, strand)]

\* a client calls add_exon_to_db
ClientChroms == {"chr1"}
ClientIntervals == {<<201, 249>>}
ClientStrands == {"+", "-", None, "*"}

AddExonToDb(chrom, start, stop, strand) ==
    /\ pc = "idle"
    /\ nCalls < MaxCalls
    /\ \E genes \in GeneLists(db, chrom, start, stop, strand) :
          LET r == add_exon_to_db(db, chrom, start, stop, strand, genes)
          IN /\ db' = r.db
             /\ call' = MergeCall("client", NoRegion, NoRegion, chrom, start,
                                  stop, strand, r)
    /\ nCalls' = nCalls + 1
    /\ UNCHANGED <<metadata, max_de_novo_exon_length, pc, pending, nDetect>>

\* lines 68-75: detect_exons_from_junctions is entered
DetectBegin ==
    /\ pc = "idle"
    /\ nDetect < MaxDetect
    /\ pending' = junction_pairs(metadata)
    /\ pc' = IF pending' = <<>> THEN "idle" ELSE "detecting"
    /\ nDetect' = nDetect + 1
    /\ UNCHANGED <<metadata, max_de_novo_exon_length, db, call, nCalls>>

\* lines 77-94: one iteration of the loop over the junction pairs; an
\* exception of add_exon_to_db leaves detect_exons_from_junctions
DetectStep ==
    /\ pc = "detecting"
    /\ pending # <<>>
    /\ LET p == Head(pending)
           junction1 == p.junction1
           junction2 == p.junction2
           strand == IF junction1.strand # junction2.strand THEN None
                     ELSE junction1.strand
           found == is_there_an_exon_here(junction1, junction2,
                                          max_de_novo_exon_length)
           start == found[1]
           stop == found[2]
       IN IF start # False
          THEN \E genes \in GeneLists(db, p.chrom, start, stop, strand) :
                 LET r == add_exon_to_db(db, p.chrom, start, stop, strand,
                                         genes)
                 IN /\ db' = r.db
                    /\ call' = MergeCall("detect", junction1, junction2,
                                         p.chrom, start, stop, strand, r)
                    /\ pending' = IF r.raised # "" THEN <<>>
                                  ELSE Tail(pending)
                    /\ pc' = IF pending' = <<>> THEN "idle" ELSE "detecting"
          ELSE /\ db' = db
               /\ call' = [NoCall EXCEPT !.op = "is_there_an_exon_here",
                                         !.caller = "detect",
                                         !.junction1 = junction1,
                                         !.junction2 = junction2,
                                         !.result = found]
               /\ pending' = Tail(pending)
               /\ pc' = IF pending' = <<>> THEN "idle" ELSE "detecting"
    /\ UNCHANGED <<metadata, max_de_novo_exon_length, nCalls, nDetect>>

\* a client calls is_there_an_exon_here on two junctions of the table
IsThereAnExonHere(row1, row2) ==
    /\ pc = "idle"
    /\ LET junction1 == Region(row1.junction_id)
           junction2 == Region(row2.junction_id)
       IN call' = [NoCall EXCEPT !.op = "is_there_an_exon_here",
                                 !.caller = "client",
                                 !.junction1 = junction1,
                                 !.junction2 = junction2,
                                 !.result = is_there_an_exon_here(junction1,
                                     junction2, max_de_novo_exon_length)]
    /\ UNCHANGED <<metadata, max_de_novo_exon_length, db, pc, pending, nCalls,
                   nDetect>>

\* a client calls _adjacent_junctions_single_exon on an exon of the store
AdjacentJunctionsSingleExon(exon) ==
    /\ pc = "idle"
    /\ LET r == _adjacent_junctions_single_exon(metadata, exon)
       IN call' = [NoCall EXCEPT !.op = "_adjacent_junctions_single_exon",
                                 !.caller = "client", !.exon = exon,
                                 !.triples = r.triples, !.raised = r.raised]
    /\ UNCHANGED <<metadata, max_de_novo_exon_length, db, pc, pending, nCalls,
                   nDetect>>

\* a client calls neighboring_exons
NeighboringExons ==
    /\ pc = "idle"
    /\ LET r == neighboring_exons(metadata, db)
       IN call' = [NoCall EXCEPT !.op = "neighboring_exons",
                                 !.caller = "client",
                                 !.triples = r.triples, !.raised = r.raised]
    /\ UNCHANGED <<metadata, max_de_novo_exon_length, db, pc, pending, nCalls,
                   nDetect>>

Next ==
    \/ \E chrom \in ClientChroms, iv \in ClientIntervals,
          strand \in ClientStrands : AddExonToDb(chrom, iv[1], iv[2], strand)
    \/ DetectBegin
    \/ DetectStep
    \/ \E row1 \in SeqRange(metadata), row2 \in SeqRange(metadata) :
          IsThereAnExonHere(row1, row2)
    \/ \E exon \in features_of_type(db, exon_types) :
          AdjacentJunctionsSingleExon(exon)
    \/ NeighboringExons

Spec == Init /\ [][Next]_vars

(***************************************************************************)
(* Properties.                                                             *)
(***************************************************************************)
IsMerge == call.op = "add_exon_to_db"

DeNovo(store) == { f \in store : f.source = OUTRIGGER_DE_NOVO }

ExonSet(store) == features_of_type(store, exon_types)

C1_WitnessNoGene ==
    /\ IsMerge /\ call.repeat
    /\ overlapping_genes(db, call.chrom, call.start, call.stop, None) = {}
    /\ \E f \in DeNovo(db) : f.start = call.start /\ f.end = call.stop

\* C2: a uniqueness violation of the store on insertion is never surfaced
\* to the caller of add_exon_to_db, on either path; the call returns
\* normally.
C2_NeverSurfaced ==
    IsMerge => call.raised # "IntegrityError"

\* C3: is_there_an_exon_here returns no candidate if the regions overlap;
\* otherwise (junction1.stop + 1, junction2.start - 1) if
\* |junction1.stop - junction2.start| < max; otherwise
\* (junction2.stop + 1, junction1.start - 1) if
\* |junction2.stop - junction1.start| < max; otherwise no candidate.
C3_Intersect(r1, r2) ==
    /\ r1.chrom = r2.chrom
    /\ \E pos \in r1.start..r1.stop : pos \in r2.start..r2.stop

C3_Gap1 == Abs(call.junction1.stop - call.junction2.start)

C3_Gap2 == Abs(call.junction2.stop - call.junction1.start)

C3_Returned ==
    IF IsMerge THEN <<call.start, call.stop>> ELSE call.result

C3_ExonHere ==
    (\/ call.op = "is_there_an_exon_here"
     \/ (IsMerge /\ call.caller = "detect"))
    => /\ C3_Intersect(call.junction1, call.junction2)
            => C3_Returned = <<False, False>>
       /\ (/\ ~C3_Intersect(call.junction1, call.junction2)
           /\ C3_Gap1 < max_de_novo_exon_length)
            => C3_Returned = <<call.junction1.stop + 1,
                               call.junction2.start - 1>>
       /\ (/\ ~C3_Intersect(call.junction1, call.junction2)
           /\ C3_Gap1 >= max_de_novo_exon_length
           /\ C3_Gap2 < max_de_novo_exon_length)
            => C3_Returned = <<call.junction2.stop + 1,
                               call.junction1.start - 1>>
       /\ (/\ ~C3_Intersect(call.junction1, call.junction2)
           /\ C3_Gap1 >= max_de_novo_exon_length
           /\ C3_Gap2 >= max_de_novo_exon_length)
            => C3_Returned = <<False, False>>

\* C3 witness: both gaps qualify, the two intervals differ, and the option-1
\* interval was returned
C3_Witness ==
    /\ call.op = "is_there_an_exon_here"
    /\ ~C3_Intersect(call.junction1, call.junction2)
    /\ C3_Gap1 < max_de_novo_exon_length
    /\ C3_Gap2 < max_de_novo_exon_length
    /\ call.result = <<call.junction1.stop + 1, call.junction2.start - 1>>
    /\ call.result # <<call.junction2.stop + 1, call.junction1.start - 1>>

\* the candidates detect_exons_from_junctions hands to add_exon_to_db with
\* a given limit, lines 75-94
detect_candidates(md, maxlen) ==
    LET prs == junction_pairs(md)
    IN { <<prs[i].chrom,
           is_there_an_exon_here(prs[i].junction1, prs[i].junction2, maxlen)[1],
           is_there_an_exon_here(prs[i].junction1, prs[i].junction2, maxlen)[2]>> :
         i \in { k \in 1..Len(prs) :
                   is_there_an_exon_here(prs[k].junction1, prs[k].junction2,
                                         maxlen)[1] # False } }

\* C4: for limits m1 <= m2 the candidate intervals detected with m2 are a
\* superset of those detected with m1.
C4_Monotone ==
    \A m1 \in MaxChoices, m2 \in MaxChoices :
        m1 <= m2 => detect_candidates(metadata, m1)
                        \subseteq detect_candidates(metadata, m2)

\* C5: for an exon e on strand '+' or '-', the triple (e.id, d, j) is in the
\* output of _adjacent_junctions_single_exon iff j has e's chrom and strand
\* and either j.exon_stop = e.stop with d upstream for '+', downstream for
\* '-', or j.exon_start = e.start with d downstream for '+', upstream for
\* '-'; nothing else is in the output.
C5_Expected(e, d, j) ==
    /\ j.chrom = e.seqid
    /\ j.strand = e.strand
    /\ \/ /\ j.exon_stop = e.end
          /\ d = IF e.strand = "+" THEN UPSTREAM ELSE DOWNSTREAM
       \/ /\ j.exon_start = e.start
          /\ d = IF e.strand = "+" THEN DOWNSTREAM ELSE UPSTREAM

C5_StrandFlip ==
    (/\ call.op = "_adjacent_junctions_single_exon"
     /\ call.exon.strand \in {"+", "-"})
    => /\ call.raised = ""
       /\ \A j \in SeqRange(metadata), d \in DIRECTIONS :
             (<<call.exon.id, d, j.junction_id>> \in call.triples)
                <=> C5_Expected(call.exon, d, j)
       /\ \A t \in call.triples :
             \E j \in SeqRange(metadata), d \in DIRECTIONS :
                t = <<call.exon.id, d, j.junction_id>>

\* C5 witness: an exon on '-' whose start matches a junction's exon_start,
\* reported upstream
C5_Witness ==
    /\ call.op = "_adjacent_junctions_single_exon"
    /\ call.exon.strand = "-"
    /\ \E j \in SeqRange(metadata) :
          /\ j.exon_start = call.exon.start
          /\ <<call.exon.id, UPSTREAM, j.junction_id>> \in call.triples

\* C6: the store never holds two distinct de-novo exon entries with the same
\* chrom, start, stop and strand.
C6_NoDuplicate ==
    \A f \in DeNovo(db), g \in DeNovo(db) :
        (/\ f.seqid = g.seqid /\ f.start = g.start
         /\ f.end = g.end /\ f.strand = g.strand) => f = g

\* C7: every exon add_exon_to_db inserts has the id
\* exon:<chrom>:<start>-<stop>:<strand> of its own chrom, start, stop and
\* strand, the strand appearing exactly once.
C7_IdFormat ==
    \A f \in DeNovo(db) :
        f.id = <<"exon", f.seqid, f.start, f.end, <<f.strand>>>>

\* C8: the Resolver completes for every exon of type 'exon' or 'novel_exon'
\* in the store, also for the de-novo exons the Detector inserted as
\* unstranded; neighboring_exons returns the adjacency table.
C8_ResolverCompletes ==
    (/\ call.op \in {"neighboring_exons", "_adjacent_junctions_single_exon"}
     /\ ExonSet(db) # {})
    => call.raised = ""

\* C9: every call of add_exon_to_db by detect_exons_from_junctions comes
\* from two distinct junctions of one chromosome, and the exon is inserted
\* on that chromosome; junctions of different chromosomes give no candidate.
C9_SameChrom ==
    (IsMerge /\ call.caller = "detect")
    => /\ call.junction1 # call.junction2
       /\ call.junction1.chrom = call.junction2.chrom
       /\ call.chrom = call.junction1.chrom
       /\ \A f \in db \ call.dbBefore : f.seqid = call.junction1.chrom

\* C9 witness: the detector inserted an exon while the table also has a
\* junction of another chromosome
C9_Witness ==
    /\ IsMerge /\ call.caller = "detect"
    /\ db # call.dbBefore
    /\ \E r \in SeqRange(metadata) : r.chrom # call.chrom

\* C10: every candidate the Detector hands to add_exon_to_db has
\* start <= stop and intersects neither junction's region.
C10_WellFormed ==
    (IsMerge /\ call.caller = "detect")
    => /\ call.start <= call.stop
       /\ \A pos \in call.start..call.stop :
             /\ pos \notin call.junction1.start..call.junction1.stop
             /\ pos \notin call.junction2.start..call.junction2.stop

====
